---- MODULE Spec2Model ----
(***************************************************************************)
(* Model of cevitxe's synchronisation core: DocumentSync (one instance per *)
(* local document and remote peer), the automerge WatchableDoc it observes *)
(* and the FIFO transport between two DocumentSyncs.                       *)
(***************************************************************************)
EXTENDS Naturals, Sequences, FiniteSets, TLC

\* ------------------------------------------------------------------ bounds

\* Local edits made in one run, over all peers.
MaxEdits == 2
\* Documents the host replaces by an older state in one run.
MaxRegress == 1
\* Messages a channel holds; sends are never refused, the cap only ends a run.
MaxChan == 6
\* The largest sequence number in the clocks the merge laws are tried on.
MaxSeq == 2

\* how many times the signal client reports a peer to a StoreManager
MaxReports == 3

\* how many bytes a client writes to one connect socket
MaxBytes == 2

\* ------------------------------------------------------------------ peers

Peers == {"A", "B", "C"}

Link(p, q) == {p, q}

\* A second connection between p and q, made after the first was given up.
Again(p, q) == {p, q, "again"}

PairNet == {Link("A", "B")}
AgainNet == {Link("A", "B"), Again("A", "B")}
StarNet == {Link("A", "B"), Link("A", "C")}
TriNet == {Link("A", "B"), Link("A", "C"), Link("B", "C")}

\* The DocumentSyncs of a net: <<p, q>> is p's DocumentSync for remote peer q,
\* <<p, q, "again">> the one of its second connection to q.
SyncIds(n) ==
  {s \in Peers \X Peers : s[1] # s[2] /\ Link(s[1], s[2]) \in n}
  \cup {s \in Peers \X Peers \X {"again"} : s[1] # s[2] /\ Again(s[1], s[2]) \in n}

\* The DocumentSync at the other end of s's connection.
Rev(s) == IF Len(s) = 2 THEN <<s[2], s[1]>> ELSE <<s[2], s[1], s[3]>>

\* The peers of a net.
NetPeers(n) == (UNION n) \cap Peers

VARIABLES
  net,        \* which peers are connected (fixed in a run)
  doc,        \* doc[p]: the document held by p's WatchableDoc
  sync,       \* sync[s]: DocumentSync s: its clocks and whether open() / close() ran
  chan,       \* chan[s]: messages DocumentSync s handed to send(), not yet received
  handlers,   \* handlers[p]: the DocumentSyncs whose docChanged is registered on
              \* p's WatchableDoc, in order
  err,        \* the exception the last operation ended with (<<>>: none)
  edits,      \* local edits made so far
  regressed,  \* peers whose document the host replaced by an older state
  last,       \* history: the last operation, its name and where it ran
  heard,      \* history: the DocumentSyncs on which receive() has run
  rcvd,       \* history: rcvd[s]: the changes receive() was given on s
  alg,        \* three clocks and what updateClock makes of them
  sm,         \* A's StoreManager: its fields, its listeners, the Connections it
              \* made and what it emitted
  sig         \* the signal server: the interests it holds, the Introductions it
              \* sent, and its connect sockets

\* The DocumentSyncs, their documents and channels, and what a run records.
syncvars == <<net, doc, sync, chan, handlers, err, edits, regressed, last, heard, rcvd>>

vars == <<syncvars, alg, sm, sig>>

\* The history variables: written by the specifications that observe a run,
\* read by no operation.
hist == <<last, heard, rcvd>>

\* ------------------------------------------------------------------ clocks

EmptyClock == [k \in {} |-> 0]

Get(c, k) == IF k \in DOMAIN c THEN c[k] ELSE 0

Max(x, y) == IF x >= y THEN x ELSE y

\* lessOrEqual looking only at the actors both clocks have an entry for.
lessOrEqualShared(a, b) == \A k \in (DOMAIN a) \cap (DOMAIN b) : a[k] <= b[k]

lessOrEqual(a, b) == \A k \in (DOMAIN a) \cup (DOMAIN b) : Get(a, k) <= Get(b, k)

\* Immutable's oldClock.merge(clock): where both have an entry, the argument's wins.
mergeRight(a, b) == [k \in (DOMAIN a) \cup (DOMAIN b) |-> IF k \in DOMAIN b THEN b[k] ELSE a[k]]

\* Immutable's oldClock.mergeWith(largestWins, clock)
mergeWith(a, b) == [k \in (DOMAIN a) \cup (DOMAIN b) |-> Max(Get(a, k), Get(b, k))]

\* ------------------------------------------------- automerge documents

\* A change: its author, its sequence number, and the clock of the author's
\* document when it was made (what it depends on).
NewChange(a, n, deps) == [actor |-> a, seq |-> n, deps |-> deps]

\* A document: the changes applied, their clock, the length of its history (one
\* entry per change applied) and the changes received but not yet causally
\* ready. hasClock is FALSE for an object that is no automerge document.
EmptyDoc ==
  [hasClock |-> TRUE, clock |-> EmptyClock, changes |-> {}, history |-> 0, queue |-> {}]

NoClockDoc ==
  [hasClock |-> FALSE, clock |-> EmptyClock, changes |-> {}, history |-> 0, queue |-> {}]

ClockSet(c, k, v) == [x \in (DOMAIN c) \cup {k} |-> IF x = k THEN v ELSE c[x]]

\* OpSet.causallyReady: every dependency, and the author's previous change, is applied.
causallyReady(d, c) ==
  /\ Get(d.clock, c.actor) >= c.seq - 1
  /\ \A k \in DOMAIN c.deps : Get(d.clock, k) >= c.deps[k]

\* applyChange without its test for a change already applied.
applyChangeAgain(d, c) ==
  [d EXCEPT !.changes = @ \cup {c}, !.clock = ClockSet(@, c.actor, c.seq),
            !.history = @ + 1]

\* OpSet.applyChange: a change whose sequence number is already applied is ignored.
applyChange(d, c) ==
  IF c.seq <= Get(d.clock, c.actor)
  THEN d
  ELSE [d EXCEPT !.changes = @ \cup {c}, !.clock = ClockSet(@, c.actor, c.seq),
                 !.history = @ + 1]

\* OpSet.applyQueuedOps: apply queued changes until none is causally ready.
RECURSIVE applyQueuedOps(_)
applyQueuedOps(d) ==
  IF \E c \in d.queue : causallyReady(d, c)
  THEN LET c == CHOOSE x \in d.queue : causallyReady(d, x)
       IN applyQueuedOps(applyChange([d EXCEPT !.queue = @ \ {c}], c))
  ELSE d

\* Automerge.applyChanges(doc, changes)
applyChanges(d, cs) == applyQueuedOps([d EXCEPT !.queue = @ \cup cs])

\* OpSet.transitiveDeps: what a peer holding `have` also holds, as far as this
\* document knows the changes `have` names.
transitiveDeps(d, have) ==
  [k \in (DOMAIN have) \cup UNION {DOMAIN c.deps : c \in {x \in d.changes :
                       x.actor \in DOMAIN have /\ x.seq = have[x.actor]}} |->
     LET known == {c \in d.changes : c.actor \in DOMAIN have /\ c.seq = have[c.actor]}
         S == {Get(have, k)} \cup {Get(c.deps, k) : c \in known}
     IN CHOOSE m \in S : \A x \in S : x <= m]

\* A.Backend.getMissingChanges(state, clock): the applied changes beyond `have`.
getMissingChanges(d, have) ==
  LET allDeps == transitiveDeps(d, have)
  IN {c \in d.changes : c.seq > Get(allDeps, c.actor)}

\* A.change(doc, fn) by the local actor a: one more change of a's, on top of doc.
change(d, a) ==
  LET c == NewChange(a, Get(d.clock, a) + 1, d.clock)
  IN [d EXCEPT !.changes = @ \cup {c}, !.clock = ClockSet(@, a, c.seq),
               !.history = @ + 1]

\* The documents a host can put back in place of d: an earlier state of d (a
\* causally closed part of its changes, without its queue), or an object that is
\* no automerge document.
ClockOf(cs) ==
  [k \in {c.actor : c \in cs} |->
     CHOOSE m \in {c.seq : c \in {x \in cs : x.actor = k}} :
       \A c \in {x \in cs : x.actor = k} : c.seq <= m]

Closed(cs) ==
  \A c \in cs :
    /\ c.seq > 1 => \E b \in cs : b.actor = c.actor /\ b.seq = c.seq - 1
    /\ \A k \in DOMAIN c.deps : \E b \in cs : b.actor = k /\ b.seq = c.deps[k]

OlderDocs(d) ==
  IF d.hasClock
  THEN {NoClockDoc} \cup
       {[hasClock |-> TRUE, clock |-> ClockOf(cs), changes |-> cs,
         history |-> Cardinality(cs), queue |-> {}] :
          cs \in {x \in SUBSET d.changes : x # d.changes /\ Closed(x)}}
  ELSE {}

\* ------------------------------------------------------- DocumentSync

\* A message: { clock, changes? }. hasChanges is FALSE when the field is absent.
Msg(clock, hasChanges, changes) ==
  [clock |-> clock, hasChanges |-> hasChanges, changes |-> changes]

\* new DocumentSync(watchableDoc, send): this.clock = { ours: Map(), theirs: Map() }.
\* theirsUndefined: this.clock.theirs is undefined (so getClock(theirs) is).
NewSync ==
  [ours |-> EmptyClock, theirs |-> EmptyClock, theirsUndefined |-> FALSE,
   status |-> "new"]

\* The operators below take and return a world w: the record of the variables
\* an operation reads and writes.
World ==
  [doc |-> doc, sync |-> sync, chan |-> chan, handlers |-> handlers, err |-> <<>>]

\* throw: the operation ends here; what was written before stays written.
Throw(w, s, kind) == [w EXCEPT !.err = Append(@, [sync |-> s, kind |-> kind])]

Threw(w) == w.err # <<>>

\* this.send(msg): the transport's callback
send(w, s, m) == [w EXCEPT !.chan[s] = Append(@, m)]

getClockFromDoc(w, s) == w.doc[s[1]].clock

\* updateClock storing the new clock instead of merging it in.
updateClockOverwrite(w, s, which, clock) ==
  IF which = "ours"
  THEN [w EXCEPT !.sync[s].ours = clock]
  ELSE [w EXCEPT !.sync[s].theirs = clock, !.sync[s].theirsUndefined = FALSE]

updateClock(w, s, which, clock) ==
  IF which = "ours"
  THEN [w EXCEPT !.sync[s].ours = mergeWith(@, clock)]
  ELSE [w EXCEPT !.sync[s].theirs = mergeWith(@, clock),
                 !.sync[s].theirsUndefined = FALSE]

\* validateDoc(clock): "ok", or the error it throws
validateDoc(w, s) ==
  IF ~w.doc[s[1]].hasClock THEN "NoClockError"
  ELSE IF ~lessOrEqual(w.sync[s].ours, getClockFromDoc(w, s)) THEN "OldClockError"
  ELSE "ok"

\* requestChanges advertising an empty clock instead of the document's.
requestChangesEmpty(w, s, clock) == send(w, s, Msg(EmptyClock, FALSE, {}))

requestChanges(w, s, clock) == send(w, s, Msg(clock, FALSE, {}))

maybeRequestChanges(w, s, clock) ==
  IF ~lessOrEqual(clock, w.sync[s].ours) THEN requestChanges(w, s, clock) ELSE w

sendChanges(w, s, changes) ==
  LET clock == getClockFromDoc(w, s)
  IN updateClock(send(w, s, Msg(clock, TRUE, changes)), s, "ours", clock)

\* maybeSendChanges comparing with what we advertised instead of what they hold.
maybeSendChangesOurs(w, s) ==
  IF ~w.doc[s[1]].hasClock THEN Throw(w, s, "TypeError")
  ELSE LET changes == getMissingChanges(w.doc[s[1]], w.sync[s].ours)
       IN IF changes # {} THEN sendChanges(w, s, changes) ELSE w

\* maybeSendChanges without its test for an empty list of changes.
maybeSendChangesAlways(w, s) ==
  IF ~w.doc[s[1]].hasClock THEN Throw(w, s, "TypeError")
  ELSE sendChanges(w, s, getMissingChanges(w.doc[s[1]], w.sync[s].theirs))

maybeSendChanges(w, s) ==
  IF w.sync[s].theirsUndefined THEN w
  ELSE IF ~w.doc[s[1]].hasClock THEN Throw(w, s, "TypeError")
  ELSE LET changes == getMissingChanges(w.doc[s[1]], w.sync[s].theirs)
       IN IF changes # {} THEN sendChanges(w, s, changes) ELSE w

\* docChanged validating the document after it has sent.
docChangedLate(w, s) ==
  LET clock == getClockFromDoc(w, s)
      v == validateDoc(w, s)
      w2 == IF w.doc[s[1]].hasClock
            THEN maybeRequestChanges(maybeSendChanges(w, s), s, clock)
            ELSE w
  IN IF v # "ok" THEN Throw(w2, s, v) ELSE updateClock(w2, s, "ours", clock)

\* docChanged that only asks for changes and never sends its own.
docChangedNoSend(w, s) ==
  LET clock == getClockFromDoc(w, s)
      v == validateDoc(w, s)
  IN IF v # "ok" THEN Throw(w, s, v)
     ELSE updateClock(maybeRequestChanges(w, s, clock), s, "ours", clock)

docChanged(w, s) ==
  LET clock == getClockFromDoc(w, s)
      v == validateDoc(w, s)
  IN IF v # "ok" THEN Throw(w, s, v)
     ELSE updateClock(maybeRequestChanges(maybeSendChanges(w, s), s, clock),
                      s, "ours", clock)

\* WatchableDoc.set(doc): this.doc = doc; this.handlers.forEach(h => h(doc)).
\* A handler that throws ends the forEach.
RECURSIVE forEachHandler(_, _, _)
forEachHandler(w, p, hs) ==
  IF hs = <<>> THEN w
  ELSE LET w2 == docChanged(w, Head(hs))
       IN IF Threw(w2) THEN w2 ELSE forEachHandler(w2, p, Tail(hs))

watchableSet(w, p, d) == forEachHandler([w EXCEPT !.doc[p] = d], p, w.handlers[p])

\* WatchableDoc.applyChanges(changes): set(Automerge.applyChanges(doc, changes))
watchableApplyChanges(w, s, changes) ==
  IF ~w.doc[s[1]].hasClock THEN Throw(w, s, "TypeError")
  ELSE watchableSet(w, s[1], applyChanges(w.doc[s[1]], changes))

\* open() asking for changes only when the document is ahead of `ours`.
openMaybe(w, s) ==
  LET clock == getClockFromDoc(w, s)
      v == validateDoc(w, s)
  IN IF v # "ok" THEN Throw(w, s, v)
     ELSE LET w2 == updateClock(maybeRequestChanges(w, s, clock), s, "ours", clock)
          IN [w2 EXCEPT !.handlers[s[1]] = Append(@, s),
                        !.sync[s].status = "open"]

\* open()
open(w, s) ==
  LET clock == getClockFromDoc(w, s)
      v == validateDoc(w, s)
  IN IF v # "ok" THEN Throw(w, s, v)
     ELSE LET w2 == updateClock(requestChanges(w, s, clock), s, "ours", clock)
          IN [w2 EXCEPT !.handlers[s[1]] = Append(@, s),
                        !.sync[s].status = "open"]

\* close(): unregisterHandler(this.docChanged.bind(this)) is given a function
\* object made by this very call, which is no element of the handler set.
close(w, s) == [w EXCEPT !.sync[s].status = "closed"]

\* receive without recording the peer's clock.
receiveNoClock(w, s, m) ==
  IF m.hasChanges THEN watchableApplyChanges(w, s, m.changes)
  ELSE maybeSendChanges(w, s)

\* receive({ clock, changes })
receive(w, s, m) ==
  LET w1 == updateClock(w, s, "theirs", m.clock)
  IN IF m.hasChanges THEN watchableApplyChanges(w1, s, m.changes)
     ELSE maybeSendChanges(w1, s)

\* ------------------------------------------------------------ StoreManager

\* The events of a StoreManager that a host listens for.
Events == {"ready", "close", "peer", "peer_remove"}

\* The ids of the peers the signal client can report to A.
RemoteIds == Peers \ {"A"}

NoConnections == [p \in RemoteIds |-> 0]

\* The discovery keys (document ids) a host creates or joins stores for.
Keys == {"d1", "d2"}

\* constructor. pc: where makeStore is ("idle": not called, "init": suspended
\* in repo.init, "returned", "threw"); closing: where close() is ("no",
\* "await": suspended in Promise.all, "done"); connections[p]: the index in
\* `made` of the Connection recorded for p (0: none); key: the discovery key
\* this.repo was made for; pending: the discovery key of the makeStore that
\* is suspended; joined: the discovery keys signal clients have joined. made,
\* peers, emitted, invoked, reports and atClose record what happened and are
\* read by no operation.
NewStoreManager ==
  [pc |-> "idle", closing |-> "no",
   repo |-> FALSE, store |-> FALSE, client |-> FALSE,
   key |-> "none", pending |-> "none", joined |-> {},
   listeners |-> {},
   connections |-> NoConnections,
   made |-> <<>>,
   peers |-> <<>>,
   reports |-> 0,
   emitted |-> [e \in Events |-> 0],
   invoked |-> [e \in Events |-> 0],
   atClose |-> [listeners |-> {}, pc |-> "idle"]]

\* Status.addListeners: storeManager.on(...) for each of the four events
addListeners(m) == [m EXCEPT !.listeners = @ \cup Events]

\* EventEmitter.removeAllListeners()
removeAllListeners(m) == [m EXCEPT !.listeners = {}]

\* EventEmitter.emit(ev): the listeners registered for ev are invoked.
emit(m, ev) ==
  [m EXCEPT !.emitted[ev] = @ + 1,
            !.invoked[ev] = IF ev \in m.listeners THEN @ + 1 ELSE @]

\* get connectionCount
connectionCount(m) == Cardinality({p \in RemoteIds : m.connections[p] # 0})

\* removePeer(peerId)
removePeer(m, peerId) ==
  LET c == m.connections[peerId]
      m1 == IF c # 0 THEN [m EXCEPT !.made[c].closes = @ + 1] ELSE m
  IN [m1 EXCEPT !.connections[peerId] = 0]

\* addPeer(peer, discoveryKey)
addPeer(m, peerId, discoveryKey) ==
  IF ~m.store \/ ~m.repo THEN m
  ELSE LET c == Len(m.made) + 1
           connection == [peer |-> peerId, closes |-> 0,
                          socket |-> discoveryKey, repo |-> m.key]
           m1 == [m EXCEPT !.made = Append(@, connection),
                           !.connections[peerId] = c]
           m2 == emit(m1, "peer")
       IN [m2 EXCEPT !.peers = Append(@, [id |-> peerId, open |-> TRUE])]

\* makeStore up to its await of repo.init
makeStoreBegin(m, discoveryKey) ==
  [m EXCEPT !.repo = TRUE, !.key = discoveryKey, !.pending = discoveryKey, !.pc = "init"]

\* makeStore from its await on. createReduxStore is handed this.repo; throws
\* says whether it throws when that is undefined.
makeStoreResume(m, throws) ==
  IF ~m.repo /\ throws THEN [m EXCEPT !.pc = "threw"]
  ELSE emit([m EXCEPT !.store = TRUE, !.client = TRUE, !.joined = @ \cup {m.pending},
                      !.pc = "returned"], "ready")

RECURSIVE removePeers(_, _)
removePeers(m, ids) ==
  IF ids = {} THEN m
  ELSE LET p == CHOOSE x \in ids : TRUE
       IN removePeers(removePeer(m, p), ids \ {p})

\* close() up to its await of Promise.all
closeBegin(m) ==
  LET m1 == [m EXCEPT !.atClose = [listeners |-> m.listeners, pc |-> m.pc]]
      m2 == removeAllListeners(m1)
      m3 == removePeers(m2, {p \in RemoteIds : m2.connections[p] # 0})
  IN [m3 EXCEPT !.closing = "await"]

\* close() from its await on
closeEnd(m) ==
  emit([m EXCEPT !.connections = NoConnections, !.repo = FALSE, !.key = "none",
                 !.store = FALSE, !.closing = "done"], "close")

\* ------------------------------------------------------------ SignalServer

\* The document ids clients are interested in.
DocIds == {"d1", "d2", "d3"}

\* The connect requests /connection/:localId/:remoteId/:documentId.
ConnKeys ==
  {<<l, r, d>> : l \in {"A", "B"}, r \in {"A", "B"}, d \in {"d1", "d2"}} \
    {<<l, l, d>> : l \in {"A", "B"}, d \in {"d1", "d2"}}

\* The request with localId and remoteId swapped, for the same document.
Mirror(k) == <<k[2], k[1], k[3]>>

\* What a client writes to a connect socket.
Bytes == {"x", "y"}

\* A connect socket. status: "none" (not requested), "held" (waiting for its
\* counterpart), "piped", "closed"; pipe: the request it is piped to (<<>>:
\* none); buffer: what it wrote and the server holds; got: what the server
\* wrote to it. sent and flushed record what happened.
NewSocket ==
  [status |-> "none", pipe |-> <<>>, buffer |-> <<>>, got |-> <<>>,
   sent |-> <<>>, flushed |-> <<>>]

\* The server with no client connected.
NewServer ==
  [interests |-> [c \in Peers |-> {}],
   intros |-> [c \in Peers |-> {}],
   socks |-> [k \in ConnKeys |-> NewSocket]]

Introduction(id, keys) == [type |-> "Introduction", id |-> id, keys |-> keys]

\* The server introducing only the client that joins.
joinOneWay(g, c, K) ==
  LET new == K \ g.interests[c]
      mine == g.interests[c] \cup K
      others == {o \in Peers \ {c} : g.interests[o] \cap new # {}}
  IN [g EXCEPT !.interests[c] = mine,
               !.intros[c] = @ \cup {Introduction(o, mine \cap g.interests[o]) : o \in others}]

\* The server receives { type: "Join", join: K } from client c.
join(g, c, K) ==
  LET new == K \ g.interests[c]
      mine == g.interests[c] \cup K
      others == {o \in Peers \ {c} : g.interests[o] \cap new # {}}
  IN [g EXCEPT !.interests[c] = mine,
               !.intros = [p \in Peers |->
                 IF p = c
                 THEN @[p] \cup {Introduction(o, mine \cap g.interests[o]) : o \in others}
                 ELSE IF p \in others
                 THEN @[p] \cup {Introduction(c, mine \cap g.interests[p])}
                 ELSE @[p]]]

\* The server pipes sockets k and h together; what h wrote while held goes to k.
pipe(g, k, h) ==
  [g EXCEPT !.socks[k].status = "piped", !.socks[k].pipe = h,
            !.socks[k].got = g.socks[h].buffer,
            !.socks[h].status = "piped", !.socks[h].pipe = k,
            !.socks[h].flushed = g.socks[h].buffer,
            !.socks[h].buffer = <<>>]

Held(g) == {h \in ConnKeys : g.socks[h].status = "held"}

\* The server pairing a request with any held request of the remote client.
connectAnyDoc(g, k) ==
  LET match == {h \in Held(g) : h[1] = k[2] /\ h[2] = k[1]}
  IN IF match # {} THEN pipe(g, k, CHOOSE h \in match : TRUE)
     ELSE [g EXCEPT !.socks[k].status = "held"]

\* The server receives the connect request k.
connect(g, k) ==
  LET match == {h \in Held(g) : h[1] = k[2] /\ h[2] = k[1] /\ h[3] = k[3]}
  IN IF match # {} THEN pipe(g, k, CHOOSE h \in match : TRUE)
     ELSE [g EXCEPT !.socks[k].status = "held"]

\* The client of socket k writes b to it.
write(g, k, b) ==
  LET g1 == [g EXCEPT !.socks[k].sent = Append(@, b)]
  IN IF g.socks[k].status = "piped"
     THEN [g1 EXCEPT !.socks[g.socks[k].pipe].got = Append(@, b)]
     ELSE [g1 EXCEPT !.socks[k].buffer = Append(@, b)]

\* Socket k closes.
closeSocket(g, k) ==
  LET g1 == [g EXCEPT !.socks[k].status = "closed"]
  IN IF g.socks[k].status = "piped"
     THEN [g1 EXCEPT !.socks[g.socks[k].pipe].status = "closed"]
     ELSE g1

\* ------------------------------------------------------------ actions

Commit(w) ==
  /\ doc' = w.doc
  /\ sync' = w.sync
  /\ chan' = w.chan
  /\ handlers' = w.handlers
  /\ err' = w.err
  /\ UNCHANGED <<alg, sm, sig>>

ChanOk(w) == \A s \in DOMAIN w.chan : Len(w.chan[s]) <= MaxChan

\* Every peer holds the empty document, no Connection is constructed yet.
InitWorld(n) ==
  [doc |-> [p \in Peers |-> EmptyDoc], sync |-> [s \in SyncIds(n) |-> NewSync],
   chan |-> [s \in SyncIds(n) |-> <<>>], handlers |-> [p \in Peers |-> <<>>],
   err |-> <<>>]

\* No clocks are drawn.
NoClocks == [state |-> "none"]

\* The DocumentSyncs of a run that starts in world w of net n.
InitSyncAt(n, w) ==
  /\ net = n
  /\ doc = w.doc
  /\ sync = w.sync
  /\ chan = w.chan
  /\ handlers = w.handlers
  /\ err = <<>>
  /\ edits = 0
  /\ regressed = {}
  /\ last = [op |-> "new", who |-> <<>>]
  /\ heard = {}
  /\ rcvd = [s \in SyncIds(n) |-> {}]

\* A run starts in world w of net n.
InitAt(n, w) == InitSyncAt(n, w) /\ alg = NoClocks /\ sm = NewStoreManager /\ sig = NewServer

InitNet(n) == InitAt(n, InitWorld(n))

\* The Connection of s is constructed: it opens its DocumentSync, once.
CanOpen(s) == sync[s].status = "new" /\ ChanOk(open(World, s))

Open(s) ==
  /\ CanOpen(s)
  /\ Commit(open(World, s))
  /\ UNCHANGED <<net, edits, regressed>>

\* The Connection of s is closed.
Close(s) ==
  /\ sync[s].status = "open"
  /\ Commit(close(World, s))
  /\ UNCHANGED <<net, edits, regressed>>

\* The host changes p's document: watchableDoc.set(A.change(doc, fn)).
Edit(p) ==
  /\ edits < MaxEdits
  /\ p \notin regressed
  /\ doc[p].hasClock
  /\ LET w == watchableSet(World, p, change(doc[p], p))
     IN ChanOk(w) /\ Commit(w)
  /\ edits' = edits + 1
  /\ UNCHANGED <<net, regressed>>

\* The host puts an older document in place: watchableDoc.set(old).
SetDoc(p) ==
  /\ Cardinality(regressed) < MaxRegress
  /\ p \notin regressed
  /\ \E d \in OlderDocs(doc[p]) :
       LET w == watchableSet(World, p, d) IN ChanOk(w) /\ Commit(w)
  /\ regressed' = regressed \cup {p}
  /\ UNCHANGED <<net, edits>>

\* The transport delivers the oldest message s sent to its counterpart, whose
\* Connection calls receive().
Delivered(s) == receive([World EXCEPT !.chan[s] = Tail(@)], Rev(s), Head(chan[s]))

CanDeliver(s) ==
  /\ chan[s] # <<>>
  /\ sync[Rev(s)].status = "open"
  /\ ChanOk(Delivered(s))

Deliver(s) ==
  /\ CanDeliver(s)
  /\ Commit(Delivered(s))
  /\ UNCHANGED <<net, edits, regressed>>

\* What a specification that observes a run records of a step.
Did(op, who) == last' = [op |-> op, who |-> who] /\ UNCHANGED <<heard, rcvd>>

\* receive() ran on the counterpart of s, with the oldest message of chan[s].
Heard(s) ==
  /\ last' = [op |-> IF Head(chan[s]).hasChanges THEN "push" ELSE "pull",
              who |-> Rev(s)]
  /\ heard' = heard \cup {Rev(s)}
  /\ rcvd' = [rcvd EXCEPT ![Rev(s)] = @ \cup Head(chan[s]).changes]

\* Two peers; every operation of the host and of the transport, observed.
Next ==
  \/ \E s \in SyncIds(net) : Open(s) /\ Did("open", s)
  \/ \E s \in SyncIds(net) : Close(s) /\ Did("close", s)
  \/ \E p \in NetPeers(net) : Edit(p) /\ Did("edit", <<p>>)
  \/ \E p \in NetPeers(net) : SetDoc(p) /\ Did("set", <<p>>)
  \/ \E s \in SyncIds(net) : Deliver(s) /\ Heard(s)

Init == InitNet(PairNet)

Spec == Init /\ [][Next]_vars

\* The host neither closes a Connection nor puts an older document in place.
NextSync ==
  \/ \E s \in SyncIds(net) : Open(s) /\ UNCHANGED hist
  \/ \E p \in NetPeers(net) : Edit(p) /\ UNCHANGED hist
  \/ \E s \in SyncIds(net) : Deliver(s) /\ UNCHANGED hist

\* The Connections of ss are constructed one after the other.
RECURSIVE openAll(_, _)
openAll(w, ss) == IF ss = <<>> THEN w ELSE openAll(open(w, Head(ss)), Tail(ss))

\* The oldest message of each of ss is delivered, one after the other.
RECURSIVE deliverAll(_, _)
deliverAll(w, ss) ==
  IF ss = <<>> THEN w
  ELSE LET s == Head(ss)
       IN deliverAll(receive([w EXCEPT !.chan[s] = Tail(@)], Rev(s), Head(w.chan[s])),
                     Tail(ss))

TriOrder ==
  <<<<"A", "B">>, <<"A", "C">>, <<"B", "A">>, <<"B", "C">>, <<"C", "A">>, <<"C", "B">>>>

\* Three peers, every two connected: all six Connections are constructed and the
\* request each open() sent has been received, before the first edit.
InitTri == InitAt(TriNet, deliverAll(openAll(InitWorld(TriNet), TriOrder), TriOrder))

\* Two peers from the start, or three peers from their first quiet state.
InitSync == Init \/ InitTri

SpecSync == InitSync /\ [][NextSync]_vars

\* One peer connected to two others.
NextStar ==
  \/ \E s \in SyncIds(net) : Open(s) /\ UNCHANGED hist
  \/ \E p \in NetPeers(net) : Edit(p) /\ UNCHANGED hist
  \/ \E p \in NetPeers(net) : SetDoc(p) /\ UNCHANGED hist
  \/ \E s \in SyncIds(net) : Deliver(s) /\ UNCHANGED hist

InitStar == InitNet(StarNet)

SpecStar == InitStar /\ [][NextStar]_vars

\* A reliable transport: every message sent is delivered, and both ends of a
\* connection are constructed. The conjuncts are WF_vars(Deliver(s)) and
\* WF_vars(Open(s)) written out, with ENABLED <<Deliver(s)>>_vars as the state
\* predicate CanDeliver(s) and ENABLED <<Open(s)>>_vars as CanOpen(s): either
\* step changes sync or chan whenever it can be taken.
SpecLive ==
  /\ Init
  /\ [][NextSync]_vars
  /\ \A s \in SyncIds(PairNet) :
       /\ []<>(~CanDeliver(s)) \/ []<><<Deliver(s)>>_vars
       /\ []<>(~CanOpen(s)) \/ []<><<Open(s)>>_vars

\* Every message in flight to an open DocumentSync is delivered, one after the
\* other, until none is left.
RECURSIVE settle(_)
settle(w) ==
  LET ready == {s \in DOMAIN w.chan : w.chan[s] # <<>> /\ w.sync[Rev(s)].status = "open"}
  IN IF ready = {} THEN w
     ELSE LET s == CHOOSE x \in ready : TRUE
          IN settle(receive([w EXCEPT !.chan[s] = Tail(@)], Rev(s), Head(w.chan[s])))

\* p makes n local edits, one after the other.
RECURSIVE editTimes(_, _, _)
editTimes(w, p, n) ==
  IF n = 0 THEN w ELSE editTimes(watchableSet(w, p, change(w.doc[p], p)), p, n - 1)

\* A and B have synced over their first connection, after a and b edits of
\* theirs, and both ends of it were closed.
Synced(a, b) ==
  LET first == <<<<"A", "B">>, <<"B", "A">>>>
      w1 == openAll(InitWorld(AgainNet), first)
      w2 == settle(editTimes(editTimes(w1, "A", a), "B", b))
  IN close(close(w2, first[1]), first[2])

InitAgain == \E a, b \in 0..1 : InitAt(AgainNet, Synced(a, b))

\* After the first connection is closed A edits; then both ends of the second
\* connection are constructed and its messages delivered.
NextAgain ==
  \/ /\ \A s \in SyncIds(net) : sync[s].status # "open"
     /\ Edit("A")
     /\ Did("edit", <<"A">>)
  \/ \E s \in SyncIds(net) : Open(s) /\ Did("open", s)
  \/ \E s \in SyncIds(net) : Deliver(s) /\ Heard(s)

SpecAgain == InitAgain /\ [][NextAgain]_vars

\* The clocks over the actors K with sequence numbers up to n; an actor may be
\* absent from a clock.
Clocks(K, n) == UNION {[D -> 0..n] : D \in SUBSET K}

\* this.clock.ours after updateClock(ours, b) on a DocumentSync whose `ours` is a.
merged(a, b) ==
  LET s == <<"A", "B">>
      w == [InitWorld(PairNet) EXCEPT !.sync[s].ours = a]
  IN updateClock(w, s, "ours", b).sync[s].ours

\* Three clocks are drawn, then merged in either order and grouping.
InitClock ==
  /\ InitSyncAt(PairNet, InitWorld(PairNet))
  /\ sm = NewStoreManager
  /\ sig = NewServer
  /\ \E a, b, c \in Clocks({"A", "B"}, MaxSeq) :
       alg = [state |-> "drawn", a |-> a, b |-> b, c |-> c]

Merge ==
  /\ alg.state = "drawn"
  /\ alg' = [state |-> "merged", a |-> alg.a, b |-> alg.b, c |-> alg.c,
             ab |-> merged(alg.a, alg.b), ba |-> merged(alg.b, alg.a),
             a_bc |-> merged(alg.a, merged(alg.b, alg.c)),
             ab_c |-> merged(merged(alg.a, alg.b), alg.c)]
  /\ UNCHANGED <<syncvars, sm, sig>>

SpecClock == InitClock /\ [][Merge]_vars

\* The first two clocks drawn are compared, each with the other.
Compare ==
  /\ alg.state = "drawn"
  /\ alg' = [state |-> "compared", a |-> alg.a, b |-> alg.b, c |-> alg.c,
             ab |-> lessOrEqual(alg.a, alg.b), ba |-> lessOrEqual(alg.b, alg.a)]
  /\ UNCHANGED <<syncvars, sm, sig>>

SpecOrder == InitClock /\ [][Compare]_vars

\* The host mounts a Status component on the StoreManager.
AddListeners ==
  /\ sm.closing # "await"
  /\ sm.listeners # Events
  /\ sm' = addListeners(sm)
  /\ UNCHANGED <<syncvars, alg, sig>>

\* The host calls createStore or joinStore, for a discovery key it has not
\* used before.
MakeStore(discoveryKey) ==
  /\ sm.pc \in {"idle", "returned"}
  /\ sm.closing = "no"
  /\ discoveryKey \notin sm.joined
  /\ sm' = makeStoreBegin(sm, discoveryKey)
  /\ UNCHANGED <<syncvars, alg, sig>>

\* repo.init resolves and makeStore goes on.
InitDone ==
  /\ sm.pc = "init"
  /\ \E throws \in BOOLEAN : sm' = makeStoreResume(sm, throws)
  /\ UNCHANGED <<syncvars, alg, sig>>

\* A signal client reports a peer for the discovery key it has joined.
PeerReported(id, discoveryKey) ==
  /\ discoveryKey \in sm.joined
  /\ sm.closing # "await"
  /\ sm.reports < MaxReports
  /\ sm' = addPeer([sm EXCEPT !.reports = @ + 1], id, discoveryKey)
  /\ UNCHANGED <<syncvars, alg, sig>>

\* A reported peer emits 'close'.
PeerClosed(h) ==
  /\ sm.closing # "await"
  /\ sm.peers[h].open
  /\ sm' = removePeer([sm EXCEPT !.peers[h].open = FALSE], sm.peers[h].id)
  /\ UNCHANGED <<syncvars, alg, sig>>

\* The host calls close().
StoreClose ==
  /\ sm.closing = "no"
  /\ sm' = closeBegin(sm)
  /\ UNCHANGED <<syncvars, alg, sig>>

\* Promise.all resolves and close() goes on.
CloseDone ==
  /\ sm.closing = "await"
  /\ sm' = closeEnd(sm)
  /\ UNCHANGED <<syncvars, alg, sig>>

NextStore ==
  \/ AddListeners
  \/ \E k \in Keys : MakeStore(k)
  \/ InitDone
  \/ \E id \in RemoteIds, k \in Keys : PeerReported(id, k)
  \/ \E h \in 1..Len(sm.peers) : PeerClosed(h)
  \/ StoreClose
  \/ CloseDone

SpecStore == InitNet(PairNet) /\ [][NextStore]_vars

\* Client c sends a Join with at least one document id it has not joined.
Join(c, K) ==
  /\ K \ sig.interests[c] # {}
  /\ sig' = join(sig, c, K)
  /\ UNCHANGED <<syncvars, alg, sm>>

NextIntro == \E c \in Peers, K \in SUBSET DocIds : Join(c, K)

SpecIntro == InitNet(PairNet) /\ [][NextIntro]_vars

\* A client opens the connect request k.
Connect(k) ==
  /\ sig.socks[k].status = "none"
  /\ sig' = connect(sig, k)
  /\ UNCHANGED <<syncvars, alg, sm>>

\* A client writes to its connect socket.
Write(k, b) ==
  /\ sig.socks[k].status \in {"held", "piped"}
  /\ Len(sig.socks[k].sent) < MaxBytes
  /\ sig' = write(sig, k, b)
  /\ UNCHANGED <<syncvars, alg, sm>>

\* A connect socket closes.
CloseSocket(k) ==
  /\ sig.socks[k].status \in {"held", "piped"}
  /\ sig' = closeSocket(sig, k)
  /\ UNCHANGED <<syncvars, alg, sm>>

NextPipe ==
  \/ \E k \in ConnKeys : Connect(k)
  \/ \E k \in ConnKeys, b \in Bytes : Write(k, b)
  \/ \E k \in ConnKeys : CloseSocket(k)

SpecPipe == InitNet(PairNet) /\ [][NextPipe]_vars

TypeOK ==
  /\ \A s \in SyncIds(net) : Len(chan[s]) < MaxChan
  /\ Len(err) <= 1

\* --------------------------------------------------------------- claims

\* The messages s hands to send() in a step: those chan'[s] holds beyond chan[s].
SentNow(s) == (Len(chan[s]) + 1)..Len(chan'[s])

AllOpen == \A s \in SyncIds(net) : sync[s].status = "open"

Quiet == \A s \in SyncIds(net) : chan[s] = <<>>

NoEcho ==
  [][\A s \in SyncIds(net) : \A i \in SentNow(s) :
       chan'[s][i].changes \cap rcvd'[s] = {}]_vars

\* A DocumentSync that was given changes has pushed changes of its own from a
\* document that holds the ones it was given.
NoEchoWitness ==
  /\ last.op = "push"
  /\ rcvd[last.who] # {}
  /\ chan[last.who] # <<>>
  /\ LET m == chan[last.who][Len(chan[last.who])]
     IN /\ m.hasChanges
        /\ m.changes # {}
        /\ \A c \in rcvd[last.who] : Get(m.clock, c.actor) >= c.seq

\* C3 (quiescence): with finitely many local edits and a reliable transport, a
\* state is reached from which on every channel stays empty.
Quiesces == <>[]Quiet

\* All edits are made, each peer holds a change the other made, and nothing is
\* in flight.
QuiescesWitness ==
  /\ Quiet
  /\ AllOpen
  /\ edits = MaxEdits
  /\ \A p \in NetPeers(net) : \E c \in doc[p].changes : c.actor # p

\* C4 (pull request): receive() of a message without changes sends one message
\* { clock: the document's clock, changes: the local changes that
\* merge(theirs, c) does not cover } when there are such changes and none
\* otherwise, and leaves the document as it is.
PullAnswered ==
  [][\A r \in SyncIds(net) :
       (last'.op = "pull" /\ last'.who = r /\ chan[Rev(r)] # <<>> /\ doc[r[1]].hasClock)
       => LET m == Head(chan[Rev(r)])
              have == mergeWith(sync[r].theirs, m.clock)
              missing == {c \in doc[r[1]].changes : c.seq > Get(have, c.actor)}
          IN /\ doc' = doc
             /\ chan'[r] = IF missing = {} THEN chan[r]
                           ELSE Append(chan[r], Msg(doc[r[1]].clock, TRUE, missing))]_vars

\* A pull with the empty clock was answered with every change of a populated
\* document.
PullAnsweredWitness ==
  /\ last.op = "pull"
  /\ sync[last.who].theirs = EmptyClock
  /\ doc[last.who[1]].changes # {}
  /\ chan[last.who] # <<>>
  /\ LET m == chan[last.who][Len(chan[last.who])]
     IN m.hasChanges /\ m.changes = doc[last.who[1]].changes

\* The messages in flight.
InFlight == UNION {{chan[s][i] : i \in 1..Len(chan[s])} : s \in SyncIds(net)}

\* C5 (idempotence of receive): for every DocumentSync and every message,
\* receive(m); receive(m) leaves the local document as receive(m) does.
ReceiveIdempotent ==
  \A r \in SyncIds(net) : \A m \in InFlight :
    LET once == receive(World, r, m)
        twice == receive(once, r, m)
    IN twice.doc[r[1]] = once.doc[r[1]]

\* A DocumentSync that has applied pushed changes has a message on its way whose
\* changes its document already holds.
ReceiveIdempotentWitness ==
  /\ last.op = "push"
  /\ chan[Rev(last.who)] # <<>>
  /\ LET m == Head(chan[Rev(last.who)])
     IN /\ m.hasChanges
        /\ m.changes # {}
        /\ m.changes \subseteq doc[last.who[1]].changes

\* C6 (monotone clocks): no step lowers any component of a DocumentSync's
\* `ours`, nor of its `theirs`.
MonotoneClocks ==
  [][\A s \in SyncIds(net) :
       /\ lessOrEqual(sync[s].ours, sync'[s].ours)
       /\ lessOrEqual(sync[s].theirs, sync'[s].theirs)]_vars

\* A DocumentSync answered a pull from a document older than what it had
\* advertised, and `ours` kept what it had advertised.
MonotoneClocksWitness ==
  /\ last.op = "pull"
  /\ doc[last.who[1]].hasClock
  /\ ~lessOrEqual(sync[last.who].ours, doc[last.who[1]].clock)
  /\ chan[last.who] # <<>>
  /\ LET m == chan[last.who][Len(chan[last.who])]
     IN m.hasChanges /\ m.clock = doc[last.who[1]].clock

\* C7 (old-clock rejection): whenever the document's clock does not dominate
\* `ours`, docChanged() and open() end with OldClockError and change nothing
\* else (no message, `ours` and `theirs` as they were); whenever the document
\* has no clock they end with NoClockError in the same way.
OldClockRejected ==
  \A s \in SyncIds(net) :
    LET v == IF ~doc[s[1]].hasClock THEN "NoClockError"
             ELSE IF ~lessOrEqual(sync[s].ours, doc[s[1]].clock) THEN "OldClockError"
             ELSE "ok"
    IN v # "ok" =>
         /\ docChanged(World, s) = [World EXCEPT !.err = <<[sync |-> s, kind |-> v]>>]
         /\ open(World, s) = [World EXCEPT !.err = <<[sync |-> s, kind |-> v]>>]

\* The host put an older document in place and a docChanged() ended with
\* OldClockError while it had changes the peer lacks.
OldClockRejectedWitness ==
  /\ last.op = "set"
  /\ err # <<>>
  /\ err[1].kind = "OldClockError"
  /\ getMissingChanges(doc[err[1].sync[1]], sync[err[1].sync].theirs) # {}

\* C8 (clock-error isolation): when a DocumentSync of a peer ends a document
\* change with OldClockError or NoClockError, every other open DocumentSync of
\* that peer still has its handler run for that change: one whose `ours` the new
\* clock dominates has advanced `ours` to it.
OthersStillNotified ==
  [][\A s \in SyncIds(net) :
       (/\ err' # <<>>
        /\ err'[1].sync = s
        /\ err'[1].kind \in {"OldClockError", "NoClockError"}
        /\ sync[s].status = "open")
       => \A u \in SyncIds(net) :
            (/\ u[1] = s[1]
             /\ u # s
             /\ sync[u].status = "open"
             /\ doc'[u[1]].hasClock
             /\ lessOrEqual(sync[u].ours, doc'[u[1]].clock))
            => lessOrEqual(doc'[u[1]].clock, sync'[u].ours)]_vars

\* C9: a DocumentSync on which receive() has not run sends no message with
\* changes.
SilentUntilHeard ==
  [][\A s \in SyncIds(net) :
       s \notin heard' => \A i \in SentNow(s) : ~chan'[s][i].hasChanges]_vars

\* C10: once close() has run on a DocumentSync, it calls send no more and its
\* clocks stay as they are.
ClosedIsSilent ==
  [][\A s \in SyncIds(net) :
       (sync[s].status = "closed" /\ sync'[s].status = "closed")
       => SentNow(s) = {} /\ sync'[s] = sync[s]]_vars

\* C11 (open): open() on a document that has a clock `ours` does not exceed
\* sends exactly one message, { clock: c } without changes, c the document's
\* clock, on its own channel and none elsewhere; sets ours to merge(ours, c);
\* registers its handler once, after those registered; and leaves every
\* document and `theirs` as they were.
OpenSendsPull ==
  [][\A s \in SyncIds(net) :
       (/\ last'.op = "open"
        /\ last'.who = s
        /\ doc[s[1]].hasClock
        /\ lessOrEqual(sync[s].ours, doc[s[1]].clock))
       => LET c == doc[s[1]].clock
          IN /\ chan' = [chan EXCEPT ![s] = Append(@, Msg(c, FALSE, {}))]
             /\ sync'[s].ours = mergeWith(sync[s].ours, c)
             /\ sync'[s].theirs = sync[s].theirs
             /\ handlers' = [handlers EXCEPT ![s[1]] = Append(@, s)]
             /\ \A i \in 1..Len(handlers[s[1]]) : handlers[s[1]][i] # s
             /\ doc' = doc]_vars

\* A DocumentSync was opened on a document that holds changes, and its request
\* with that document's clock is on its way.
OpenSendsPullWitness ==
  /\ last.op = "open"
  /\ doc[last.who[1]].changes # {}
  /\ chan[last.who] # <<>>
  /\ LET m == chan[last.who][Len(chan[last.who])]
     IN ~m.hasChanges /\ m.clock = doc[last.who[1]].clock
  /\ sync[last.who].ours = doc[last.who[1]].clock

\* C20 (clock merge): the pointwise maximum updateClock computes is commutative
\* and associative, and its result dominates its first argument.
MergeLaws ==
  alg.state = "merged" =>
    /\ alg.ab = alg.ba
    /\ alg.a_bc = alg.ab_c
    /\ lessOrEqual(alg.a, alg.ab)

\* Two clocks neither of which dominates the other were merged.
MergeLawsWitness ==
  /\ alg.state = "merged"
  /\ ~lessOrEqual(alg.a, alg.b)
  /\ ~lessOrEqual(alg.b, alg.a)
  /\ alg.ab # alg.a
  /\ alg.ab # alg.b

\* C12 (reconnect): after A and B have synced, their connection was closed and
\* A has made n edits, on their second connection A sends no change B holds,
\* and the first message with changes A sends carries exactly A's n edits.
ReconnectSendsNew ==
  [][LET s == <<"A", "B", "again">>
         pushes == {i \in SentNow(s) : chan'[s][i].hasChanges}
         first == /\ rcvd[Rev(s)] = {}
                  /\ \A i \in 1..Len(chan[s]) : ~chan[s][i].hasChanges
     IN \A i \in pushes :
          /\ chan'[s][i].changes \cap doc["B"].changes = {}
          /\ (first /\ \A j \in pushes : i <= j)
             => /\ chan'[s][i].changes = doc["A"].changes \ doc["B"].changes
                /\ Cardinality(chan'[s][i].changes) = edits]_vars

\* Over the second connection B was given A's edits, as many as a run allows,
\* on top of changes of A and of B that both held before, and nothing is in
\* flight on it.
ReconnectSendsNewWitness ==
  /\ net = AgainNet
  /\ edits = MaxEdits
  /\ Cardinality(rcvd[<<"B", "A", "again">>]) = MaxEdits
  /\ Cardinality(doc["B"].changes) = MaxEdits + 2
  /\ doc["A"].changes = doc["B"].changes
  /\ chan[<<"A", "B", "again">>] = <<>>
  /\ chan[<<"B", "A", "again">>] = <<>>

\* C13 (close closes every Connection): once close() has returned, every
\* Connection the StoreManager made has had close() called exactly once,
\* `connections` is empty and connectionCount is 0.
AllConnectionsClosed ==
  sm.closing = "done" =>
    /\ \A c \in 1..Len(sm.made) : sm.made[c].closes = 1
    /\ sm.connections = NoConnections
    /\ connectionCount(sm) = 0

\* C14 (close emits CLOSE): a listener registered for 'close' when close() is
\* called is invoked once by that close().
CloseHeard ==
  [][(sm.closing = "await" /\ sm'.closing = "done" /\ "close" \in sm.atClose.listeners)
       => sm'.invoked["close"] = sm.invoked["close"] + 1]_vars

\* C15 (peer detach): when a peer with a recorded Connection emits 'close',
\* that Connection is closed and removed, connectionCount goes down by one and
\* 'peer_remove' is emitted, to the listeners registered for it.
PeerDetached ==
  [][\A h \in 1..Len(sm.peers) :
       LET id == sm.peers[h].id
           c == sm.connections[id]
       IN (sm.peers[h].open /\ ~sm'.peers[h].open /\ c # 0)
          => /\ sm'.made[c].closes = sm.made[c].closes + 1
             /\ sm'.connections[id] = 0
             /\ connectionCount(sm') = connectionCount(sm) - 1
             /\ sm'.emitted["peer_remove"] = sm.emitted["peer_remove"] + 1
             /\ "peer_remove" \in sm.listeners
                  => sm'.invoked["peer_remove"] = sm.invoked["peer_remove"] + 1]_vars

\* C16 (duplicate peer adoption): at every moment at most one Connection per
\* peer id has not been closed, and connectionCount is the number of
\* Connections that have not been closed.
OneConnectionPerPeer ==
  LET unclosed == {c \in 1..Len(sm.made) : sm.made[c].closes = 0}
  IN /\ \A id \in RemoteIds :
          Cardinality({c \in unclosed : sm.made[c].peer = id}) <= 1
     /\ connectionCount(sm) = Cardinality(unclosed)

\* C17 (cancelling init): when close() was called while makeStore was
\* suspended in repo.init, after both have finished there is no store and no
\* repository, no signal client was opened, 'ready' was not emitted and no
\* peer was adopted.
InitCancelled ==
  (sm.atClose.pc = "init" /\ sm.closing = "done" /\ sm.pc \in {"returned", "threw"})
    => /\ ~sm.store
       /\ ~sm.repo
       /\ ~sm.client
       /\ sm.emitted["ready"] = 0
       /\ sm.made = <<>>

\* C18 (introduction): two clients whose joined document ids intersect have
\* each been sent an Introduction with the other's id and exactly the shared
\* ids as keys, whatever the order of their Joins; no Introduction names a
\* client with keys the two do not share, so none passes between clients with
\* disjoint interests.
IntroducedBothWays ==
  \A a \in Peers : \A b \in Peers \ {a} :
    LET shared == sig.interests[a] \cap sig.interests[b]
    IN /\ shared # {} => Introduction(b, shared) \in sig.intros[a]
       /\ \A m \in sig.intros[a] : m.id = b => (m.keys # {} /\ m.keys \subseteq shared)

\* A and B share two document ids, joined one after the other by one of them,
\* and C has joined a document neither of the two has.
IntroducedBothWaysWitness ==
  /\ sig.interests["A"] \cap sig.interests["B"] = {"d1", "d2"}
  /\ Cardinality(sig.intros["A"]) = 2
  /\ sig.interests["C"] = {"d3"}
  /\ sig.intros["C"] = {}

\* C19 (pairing): a connect socket is piped only to its mirror request for
\* the same document; while it is held nothing it wrote is lost or passed on;
\* once piped, what its counterpart was given is what it wrote, in order;
\* and a piped socket is closed exactly when its counterpart is.
PipedToMirror ==
  \A k \in ConnKeys :
    LET s == sig.socks[k]
    IN /\ s.status = "held" => (s.pipe = <<>> /\ s.buffer = s.sent)
       /\ s.pipe # <<>> =>
            /\ s.pipe = Mirror(k)
            /\ sig.socks[s.pipe].pipe = k
            /\ s.buffer = <<>>
            /\ sig.socks[s.pipe].got = s.sent
            /\ (s.status = "closed") = (sig.socks[s.pipe].status = "closed")
       /\ s.pipe = <<>> => s.got = <<>>

\* A socket that wrote while it was held has been piped and has written
\* again, its counterpart has written too, and the requests for the other
\* document are not paired.
PipedToMirrorWitness ==
  \E k \in ConnKeys :
    /\ sig.socks[k].status = "piped"
    /\ Len(sig.socks[k].flushed) = 1
    /\ Len(sig.socks[k].sent) = MaxBytes
    /\ Len(sig.socks[Mirror(k)].sent) = MaxBytes
    /\ \E h \in ConnKeys : h[3] # k[3] /\ sig.socks[h].status = "held"

\* C21 (antisymmetry), as claimed: two clocks are each less than or equal to
\* the other exactly when they are equal.
EqualWhenBothLessOrEqual ==
  alg.state = "compared" => ((alg.ab /\ alg.ba) <=> alg.a = alg.b)

\* An entry of 0 is an entry like any other to equality, and no entry at all
\* to lessOrEqual.
NoZero(c) == \A k \in DOMAIN c : c[k] > 0

\* C21 (antisymmetry), amended: two clocks are each less than or equal to the
\* other exactly when they give every actor the same number, an absent actor
\* counting as 0; for clocks without an entry of 0 that is when they are equal.
SameWhenBothLessOrEqual ==
  alg.state = "compared" =>
    /\ (alg.ab /\ alg.ba) <=> \A k \in {"A", "B"} : Get(alg.a, k) = Get(alg.b, k)
    /\ (NoZero(alg.a) /\ NoZero(alg.b)) => ((alg.ab /\ alg.ba) <=> alg.a = alg.b)

\* Two clocks that differ, one with an entry of 0 for an actor the other
\* lacks, were found less than or equal to each other.
SameWhenBothLessOrEqualWitness ==
  /\ alg.state = "compared"
  /\ alg.ab /\ alg.ba
  /\ alg.a # alg.b
  /\ "B" \in DOMAIN alg.a /\ "B" \notin DOMAIN alg.b
  /\ Get(alg.a, "A") = MaxSeq

\* C22 (bare-clock request after apply): in the docChanged that follows
\* applying received changes, a message without changes is sent only if the
\* document's clock is not less than or equal to `ours`, nothing at all is
\* sent when the document's clock did not advance, and never both a message
\* with changes and one without.
RequestOnlyWhenAdvanced ==
  [][\A r \in SyncIds(net) :
       (last'.op = "push" /\ last'.who = r)
       => LET sent == {chan'[r][i] : i \in SentNow(r)}
              c == doc'[r[1]].clock
          IN /\ \A m \in sent : ~m.hasChanges => ~lessOrEqual(c, sync[r].ours)
             /\ doc'[r[1]].clock = doc[r[1]].clock => sent = {}
             /\ ~\E m1, m2 \in sent : m1.hasChanges /\ ~m2.hasChanges]_vars

\* C23 (no retransmission): when a DocumentSync pushes changes, `theirs`
\* then covers the clock it sent, and the push carries no change that an
\* earlier push of the same DocumentSync, still on its way, carries.
NeverPushedTwice ==
  [][\A s \in SyncIds(net) : \A i \in SentNow(s) :
       chan'[s][i].hasChanges
       => /\ lessOrEqual(chan'[s][i].clock, sync'[s].theirs)
          /\ \A j \in 1..(i - 1) : chan'[s][i].changes \cap chan'[s][j].changes = {}]_vars

\* C24 (connection/repository binding): every Connection addPeer made for a
\* peer reported on a discovery key was given the Repo made for that key.
RepoOfItsDocument ==
  \A c \in 1..Len(sm.made) : sm.made[c].repo = sm.made[c].socket

\* C25 (stale close events): when a peer handle emits 'close', no Connection
\* but the one made for that handle is closed, and the Connection recorded for
\* its peer id stays recorded unless it is that one.
OnlyItsOwnConnection ==
  [][\A h \in 1..Len(sm.peers) :
       (sm.peers[h].open /\ ~sm'.peers[h].open)
       => LET id == sm.peers[h].id
          IN /\ \A c \in 1..Len(sm.made) :
                  c # h => sm'.made[c].closes = sm.made[c].closes
             /\ sm.connections[id] # h => sm'.connections[id] = sm.connections[id]]_vars

====
